---------------------------- MODULE Spec2Model ----------------------------
(***************************************************************************)
(* A model of package htl (honr/vulcan): the character-driven parser of    *)
(* the (tag :key value "text" (child ...)) notation, the serializer        *)
(* Node.String, and the command-line entry point that parses standard      *)
(* input and prints the rendered tree.                                     *)
(*                                                                         *)
(* Strings are sequences of code points (integers).  Nodes live in a heap  *)
(* (a sequence of node records); a *Node is an index into the heap, 0 is   *)
(* the nil pointer.                                                        *)
(***************************************************************************)
EXTENDS Integers, Sequences, FiniteSets, Bags, TLC

VARIABLES
    rawInput,      \* the code points of the input consumed so far
    pending,       \* input generation: the rest of the fragment being fed
    script,        \* input generation: the fragments fed so far
    pc,            \* "loop" | "returned" | "printed"
    eater,         \* the eatFn that consumes the next rune, "nil" on failure
    ps,            \* the ParseState
    heap,          \* the nodes allocated by NewNode
    lineNumber,
    columnNumber,
    ret,           \* what Parse returned: [tree, err]
    stdout,
    stderr,
    nOpen,         \* history: '(' read as an opening paren by a step that succeeded
    nClose,        \* history: ')' read as a closing paren by a step that succeeded
    tokStart,      \* history: index in rawInput of the first code point of the token being read
    born,          \* history: per node of the heap, the index in rawInput where it starts
    \* The static file server (package static and ffe's main):
    devMode,       \* the flag dev-mode
    files,         \* the file system: the content of each file under the served directory
    spc,           \* "walk" | "register" | "serve" | "exited"
    walk,          \* the paths filepath.Walk has yet to visit, in lexical order
    handlers,      \* HandlersFromDirs' map m from subpath to handler
    mux,           \* the patterns registered with http.HandleFunc and their handlers
    conns,         \* the bag of requests being served, each on a goroutine of its own
    response,      \* the response written last
    printed,       \* the errors the handlers wrote with fmt.Println
    fatal,         \* the error handed to log.Fatal
    nRequests,     \* the number of requests answered
    nEdits,        \* the number of changes made to the files
    nRead,         \* history: per file, the number of times ioutil.ReadFile read it
    asRead,        \* history: per file, the content ioutil.ReadFile last found
    readFor        \* history: what the handler that wrote the last response had read

parseVars == <<rawInput, pending, script, pc, eater, ps, heap, lineNumber,
               columnNumber, ret, stdout, stderr, nOpen, nClose, tokStart, born>>

serverVars == <<devMode, files, spc, walk, handlers, mux, conns, response, printed,
                fatal, nRequests, nEdits, nRead, asRead, readFor>>

vars == <<parseVars, serverVars>>

---------------------------------------------------------------------------
(* Constants of the source.                                                *)

maxStackDepth == 256

openParenRune == 40
closeParenRune == 41
quoteRune == 34
escapingRune == 92
keywordStartRune == 58
commentStartRune == 59
newLineRune == 10

\* {"br", "hr", "link", "img", "meta"}
degenerateTags ==
    { <<98, 114>>, <<104, 114>>, <<108, 105, 110, 107>>, <<105, 109, 103>>,
      <<109, 101, 116, 97>> }

\* '<': "&lt;", '>': "&gt;", '&': "&amp;", '\'': "&apos;", '"': "&quot;"
htmlEscapeRuneMap ==
    (60 :> <<38, 108, 116, 59>>) @@ (62 :> <<38, 103, 116, 59>>)
    @@ (38 :> <<38, 97, 109, 112, 59>>) @@ (39 :> <<38, 97, 112, 111, 115, 59>>)
    @@ (34 :> <<38, 113, 117, 111, 116, 59>>)

htmlEscapeRune(r) ==
    IF r \in DOMAIN htmlEscapeRuneMap THEN htmlEscapeRuneMap[r] ELSE <<r>>

\* The escape table passing the other code points through unescaped.
backslashUnescapeOnly(r) ==
    CASE r = 102 -> <<12>>
      [] r = 110 -> <<10>>
      [] r = 114 -> <<13>>
      [] r = 116 -> <<9>>
      [] r = 118 -> <<11>>
      [] OTHER -> <<r>>

\* 'f' -> "\f", 'n' -> "\n", 'r' -> "\r", 't' -> "\t", 'v' -> "\v"
backslashUnescapeThenHtmlEscape(r) ==
    CASE r = 102 -> <<12>>
      [] r = 110 -> <<10>>
      [] r = 114 -> <<13>>
      [] r = 116 -> <<9>>
      [] r = 118 -> <<11>>
      [] OTHER -> htmlEscapeRune(r)

\* unicode.IsSpace: the runes with Unicode's White_Space property.
IsSpace(r) ==
    r \in ({9, 10, 11, 12, 13, 32, 133, 160, 5760, 8232, 8233, 8239, 8287, 12288}
           \cup (8192 .. 8202))

\* The diagnostics staged by ParseState.error.
\* "tree too deep"
MsgTreeTooDeep ==
    <<116, 114, 101, 101, 32, 116, 111, 111, 32, 100, 101, 101, 112>>
\* "unexpected closing paren"
MsgUnexpectedClosingParen ==
    <<117, 110, 101, 120, 112, 101, 99, 116, 101, 100, 32, 99, 108, 111, 115,
      105, 110, 103, 32, 112, 97, 114, 101, 110>>
\* "unexpected open paren"
MsgUnexpectedOpenParen ==
    <<117, 110, 101, 120, 112, 101, 99, 116, 101, 100, 32, 111, 112, 101, 110,
      32, 112, 97, 114, 101, 110>>
\* "unexpected close paren"
MsgUnexpectedCloseParen ==
    <<117, 110, 101, 120, 112, 101, 99, 116, 101, 100, 32, 99, 108, 111, 115,
      101, 32, 112, 97, 114, 101, 110>>
\* "unexpect character"
MsgUnexpectCharacter ==
    <<117, 110, 101, 120, 112, 101, 99, 116, 32, 99, 104, 97, 114, 97, 99, 116,
      101, 114>>
\* "backslash-escaping not allowed here"
MsgBackslashAir ==
    <<98, 97, 99, 107, 115, 108, 97, 115, 104, 45, 101, 115, 99, 97, 112, 105,
      110, 103, 32, 110, 111, 116, 32, 97, 108, 108, 111, 119, 101, 100, 32,
      104, 101, 114, 101>>
\* "backslash-escaping is not allowed here"
MsgBackslashSymbol ==
    <<98, 97, 99, 107, 115, 108, 97, 115, 104, 45, 101, 115, 99, 97, 112, 105,
      110, 103, 32, 105, 115, 32, 110, 111, 116, 32, 97, 108, 108, 111, 119,
      101, 100, 32, 104, 101, 114, 101>>

---------------------------------------------------------------------------
(* Nodes and the parse state.                                              *)

NewNode(kind, tag) ==
    [kind |-> kind, tag |-> tag, attr |-> <<>>, content |-> <<>>]

\* The outcome of an eatFn: the next eatFn, the parse state and the heap.
Outcome(e, p, h) == [eater |-> e, ps |-> p, heap |-> h]

error(p, h, s) == Outcome("nil", [p EXCEPT !.token = s], h)

currentNode(p) ==
    IF Len(p.stack) = 0 THEN 0 ELSE p.stack[Len(p.stack)]

\* m[k] = v on a Go map.
MapStore(m, k, v) ==
    [x \in (DOMAIN m) \cup {k} |-> IF x = k THEN v ELSE m[x]]

\* commit putting a new text node in front of the children.
commitPrepends(p, h) ==
    LET cur == currentNode(p) IN
    CASE p.context = "contextTag" ->
           [ps |-> [p EXCEPT !.token = <<>>],
            heap |-> [h EXCEPT ![cur].tag = p.token]]
      [] p.context = "contextAttrKey" ->
           [ps |-> [p EXCEPT !.key = p.token, !.token = <<>>],
            heap |-> h]
      [] p.context = "contextAttrValue" ->
           [ps |-> [p EXCEPT !.key = <<>>, !.token = <<>>],
            heap |-> [h EXCEPT ![cur].attr = MapStore(@, p.key, p.token)]]
      [] p.context = "contextContent" ->
           LET h1 == Append(h, NewNode("TextNode", p.token)) IN
           [ps |-> [p EXCEPT !.token = <<>>],
            heap |-> [h1 EXCEPT ![cur].content = <<Len(h1)>> \o @]]
      [] OTHER -> [ps |-> p, heap |-> h]

\* commit, with flushToken inlined: the token moves into the tree (or into
\* ps.key) and the buffer is emptied; a no-op in the other contexts.
commit(p, h) ==
    LET cur == currentNode(p) IN
    CASE p.context = "contextTag" ->
           [ps |-> [p EXCEPT !.token = <<>>],
            heap |-> [h EXCEPT ![cur].tag = p.token]]
      [] p.context = "contextAttrKey" ->
           [ps |-> [p EXCEPT !.key = p.token, !.token = <<>>],
            heap |-> h]
      [] p.context = "contextAttrValue" ->
           [ps |-> [p EXCEPT !.key = <<>>, !.token = <<>>],
            heap |-> [h EXCEPT ![cur].attr = MapStore(@, p.key, p.token)]]
      [] p.context = "contextContent" ->
           LET h1 == Append(h, NewNode("TextNode", p.token)) IN
           [ps |-> [p EXCEPT !.token = <<>>],
            heap |-> [h1 EXCEPT ![cur].content = Append(@, Len(h1))]]
      [] OTHER -> [ps |-> p, heap |-> h]

\* push with the depth test off by one (> for >=).
pushDepthOffByOne(p, h) ==
    LET h1 == Append(h, NewNode("ElementNode", <<>>))
        newNode == Len(h1)
        parent == currentNode(p)
    IN  IF Len(p.stack) > maxStackDepth
        THEN error(p, h1, MsgTreeTooDeep)
        ELSE Outcome("eatSymbol",
                     [p EXCEPT !.stack = Append(@, newNode),
                               !.context = "contextTag"],
                     IF parent # 0
                     THEN [h1 EXCEPT ![parent].content = Append(@, newNode)]
                     ELSE h1)

\* push linking the new element to the root instead of the top of the stack.
pushUnderRoot(p, h) ==
    LET h1 == Append(h, NewNode("ElementNode", <<>>))
        newNode == Len(h1)
        parent == IF Len(p.stack) = 0 THEN 0 ELSE p.stack[1]
    IN  IF Len(p.stack) >= maxStackDepth
        THEN error(p, h1, MsgTreeTooDeep)
        ELSE Outcome("eatSymbol",
                     [p EXCEPT !.stack = Append(@, newNode),
                               !.context = "contextTag"],
                     IF parent # 0
                     THEN [h1 EXCEPT ![parent].content = Append(@, newNode)]
                     ELSE h1)

\* The new node is allocated before the depth test, as in the source; when
\* the test fails it stays unlinked.
push(p, h) ==
    LET h1 == Append(h, NewNode("ElementNode", <<>>))
        newNode == Len(h1)
        parent == currentNode(p)
    IN  IF Len(p.stack) >= maxStackDepth
        THEN error(p, h1, MsgTreeTooDeep)
        ELSE Outcome("eatSymbol",
                     [p EXCEPT !.stack = Append(@, newNode),
                               !.context = "contextTag"],
                     IF parent # 0
                     THEN [h1 EXCEPT ![parent].content = Append(@, newNode)]
                     ELSE h1)

\* pop with the test of the stack off by one (> 0 for > 1): the root is popped.
popRoot(p, h) ==
    IF Len(p.stack) > 0
    THEN Outcome("eatAir",
                 [p EXCEPT !.stack = SubSeq(@, 1, Len(@) - 1),
                           !.context = "contextDefault"],
                 h)
    ELSE error(p, h, MsgUnexpectedClosingParen)

pop(p, h) ==
    IF Len(p.stack) > 1
    THEN Outcome("eatAir",
                 [p EXCEPT !.stack = SubSeq(@, 1, Len(@) - 1),
                           !.context = "contextDefault"],
                 h)
    ELSE error(p, h, MsgUnexpectedClosingParen)

\* eatAir pushing on a '(' that follows an attribute key.
eatAirPushesAfterKey(r, p, h) ==
    CASE r = openParenRune -> push(p, h)
      [] r = closeParenRune ->
           IF p.context = "contextAfterAttrKey"
           THEN error(p, h, MsgUnexpectedCloseParen)
           ELSE pop(p, h)
      [] r = quoteRune ->
           IF p.context = "contextAfterAttrKey"
           THEN Outcome("eatString", [p EXCEPT !.context = "contextAttrValue"], h)
           ELSE Outcome("eatString", [p EXCEPT !.context = "contextContent"], h)
      [] r = commentStartRune -> Outcome("eatComment", p, h)
      [] r = keywordStartRune ->
           IF p.context = "contextAfterTag"
           THEN Outcome("eatSymbol", [p EXCEPT !.context = "contextAttrKey"], h)
           ELSE error(p, h, MsgUnexpectCharacter)
      [] r = escapingRune -> error(p, h, MsgBackslashAir)
      [] OTHER ->
           IF IsSpace(r)
           THEN Outcome("eatAir", p, h)
           ELSE Outcome("eatSymbol",
                        [p EXCEPT !.token = Append(@, r),
                                  !.context =
                                      IF p.context = "contextAfterAttrKey"
                                      THEN "contextAttrValue"
                                      ELSE "contextContent"],
                        h)

eatAir(r, p, h) ==
    CASE r = openParenRune ->
           IF p.context = "contextAfterAttrKey"
           THEN error(p, h, MsgUnexpectedOpenParen)
           ELSE push(p, h)
      [] r = closeParenRune ->
           IF p.context = "contextAfterAttrKey"
           THEN error(p, h, MsgUnexpectedCloseParen)
           ELSE pop(p, h)
      [] r = quoteRune ->
           IF p.context = "contextAfterAttrKey"
           THEN Outcome("eatString", [p EXCEPT !.context = "contextAttrValue"], h)
           ELSE Outcome("eatString", [p EXCEPT !.context = "contextContent"], h)
      [] r = commentStartRune -> Outcome("eatComment", p, h)
      [] r = keywordStartRune ->
           IF p.context = "contextAfterTag"
           THEN Outcome("eatSymbol", [p EXCEPT !.context = "contextAttrKey"], h)
           ELSE error(p, h, MsgUnexpectCharacter)
      [] r = escapingRune -> error(p, h, MsgBackslashAir)
      [] OTHER ->
           IF IsSpace(r)
           THEN Outcome("eatAir", p, h)
           ELSE Outcome("eatSymbol",
                        [p EXCEPT !.token = Append(@, r),
                                  !.context =
                                      IF p.context = "contextAfterAttrKey"
                                      THEN "contextAttrValue"
                                      ELSE "contextContent"],
                        h)

\* eatSymbol returning to eatAir on whitespace without committing the token.
eatSymbolKeepsToken(r, p, h) ==
    CASE r = openParenRune ->
           IF p.context = "contextAttrKey"
           THEN error(p, h, MsgUnexpectedOpenParen)
           ELSE LET c == commit(p, h) IN push(c.ps, c.heap)
      [] r = closeParenRune ->
           IF p.context = "contextAttrKey"
           THEN error(p, h, MsgUnexpectedCloseParen)
           ELSE LET c == commit(p, h) IN pop(c.ps, c.heap)
      [] r = quoteRune ->
           LET c == commit(p, h) IN
           Outcome("eatString",
                   [c.ps EXCEPT !.context =
                       IF c.ps.context = "contextAttrKey"
                       THEN "contextAttrValue"
                       ELSE "contextContent"],
                   c.heap)
      [] r = escapingRune -> error(p, h, MsgBackslashSymbol)
      [] OTHER ->
           IF IsSpace(r)
           THEN Outcome("eatAir",
                        [p EXCEPT !.context =
                            IF p.context = "contextAttrKey"
                            THEN "contextAfterAttrKey"
                            ELSE "contextAfterTag"],
                        h)
           ELSE Outcome("eatSymbol", [p EXCEPT !.token = Append(@, r)], h)

eatSymbol(r, p, h) ==
    CASE r = openParenRune ->
           IF p.context = "contextAttrKey"
           THEN error(p, h, MsgUnexpectedOpenParen)
           ELSE LET c == commit(p, h) IN push(c.ps, c.heap)
      [] r = closeParenRune ->
           IF p.context = "contextAttrKey"
           THEN error(p, h, MsgUnexpectedCloseParen)
           ELSE LET c == commit(p, h) IN pop(c.ps, c.heap)
      [] r = quoteRune ->
           LET c == commit(p, h) IN
           Outcome("eatString",
                   [c.ps EXCEPT !.context =
                       IF c.ps.context = "contextAttrKey"
                       THEN "contextAttrValue"
                       ELSE "contextContent"],
                   c.heap)
      [] r = escapingRune -> error(p, h, MsgBackslashSymbol)
      [] OTHER ->
           IF IsSpace(r)
           THEN LET c == commit(p, h) IN
                Outcome("eatAir",
                        [c.ps EXCEPT !.context =
                            IF c.ps.context = "contextAttrKey"
                            THEN "contextAfterAttrKey"
                            ELSE "contextAfterTag"],
                        c.heap)
           ELSE Outcome("eatSymbol", [p EXCEPT !.token = Append(@, r)], h)

\* eatString testing for the closing '"' before the escape flag.
eatStringQuoteCloses(r, p, h) ==
    IF r = quoteRune
    THEN LET c == commit(p, h) IN
         Outcome("eatAir",
                 [c.ps EXCEPT !.context =
                     IF c.ps.context = "contextAttrValue"
                     THEN "contextAfterTag"
                     ELSE "contextDefault"],
                 c.heap)
    ELSE IF p.escapingBackslash
    THEN Outcome("eatString",
                 [p EXCEPT !.escapingBackslash = FALSE,
                           !.token = @ \o backslashUnescapeThenHtmlEscape(r)],
                 h)
    ELSE IF r = escapingRune
    THEN Outcome("eatString", [p EXCEPT !.escapingBackslash = TRUE], h)
    ELSE Outcome("eatString", [p EXCEPT !.token = @ \o htmlEscapeRune(r)], h)

eatString(r, p, h) ==
    IF p.escapingBackslash
    THEN Outcome("eatString",
                 [p EXCEPT !.escapingBackslash = FALSE,
                           !.token = @ \o backslashUnescapeThenHtmlEscape(r)],
                 h)
    ELSE IF r = quoteRune
    THEN LET c == commit(p, h) IN
         Outcome("eatAir",
                 [c.ps EXCEPT !.context =
                     IF c.ps.context = "contextAttrValue"
                     THEN "contextAfterTag"
                     ELSE "contextDefault"],
                 c.heap)
    ELSE IF r = escapingRune
    THEN Outcome("eatString", [p EXCEPT !.escapingBackslash = TRUE], h)
    ELSE Outcome("eatString", [p EXCEPT !.token = @ \o htmlEscapeRune(r)], h)

\* eatComment resetting the context when the comment ends.
eatCommentResetsContext(r, p, h) ==
    IF r = newLineRune
    THEN Outcome("eatAir", [p EXCEPT !.context = "contextDefault"], h)
    ELSE Outcome("eatComment", p, h)

eatComment(r, p, h) ==
    IF r = newLineRune
    THEN Outcome("eatAir", p, h)
    ELSE Outcome("eatComment", p, h)

\* eater(r, &ps): the call through the function value.
Eat(e, r, p, h) ==
    CASE e = "eatAir" -> eatAir(r, p, h)
      [] e = "eatSymbol" -> eatSymbol(r, p, h)
      [] e = "eatString" -> eatString(r, p, h)
      [] e = "eatComment" -> eatComment(r, p, h)

---------------------------------------------------------------------------
(* Node.String.                                                            *)

\* The comparison reversed (b < a).
LessReversed(a, b) ==
    \E i \in 1 .. Len(a) :
        /\ i - 1 <= Len(b)
        /\ SubSeq(b, 1, i - 1) = SubSeq(a, 1, i - 1)
        /\ (i > Len(b) \/ b[i] < a[i])

\* a < b on Go strings: bytewise lexicographic order, which on UTF-8 is the
\* lexicographic order of the code points.
Less(a, b) ==
    \E i \in 1 .. Len(b) :
        /\ i - 1 <= Len(a)
        /\ SubSeq(a, 1, i - 1) = SubSeq(b, 1, i - 1)
        /\ (i > Len(a) \/ a[i] < b[i])

\* The keys of a map collected into a slice and sorted by sort.Sort.
RECURSIVE SortKeys(_)
SortKeys(S) ==
    IF S = {} THEN <<>>
    ELSE LET k == CHOOSE x \in S : \A y \in S \ {x} : Less(x, y)
         IN  <<k>> \o SortKeys(S \ {k})

RECURSIVE String(_, _)
RECURSIVE StringAll(_, _)
RECURSIVE AttrString(_, _)

\* for _, c := range t.content { s += c.String() }
StringAll(h, content) ==
    IF content = <<>> THEN <<>>
    ELSE String(h, Head(content)) \o StringAll(h, Tail(content))

\* for _, k := range attrKeys { s += " " + k + "=\"" + t.attr[k] + "\"" }
AttrString(attr, keys) ==
    IF keys = <<>> THEN <<>>
    ELSE <<32>> \o Head(keys) \o <<61, 34>> \o attr[Head(keys)] \o <<34>>
         \o AttrString(attr, Tail(keys))

\* String self-closing a void tag whether or not it has children.
StringVoidAlwaysSelfCloses(h, t) ==
    IF t = 0 THEN <<>>
    ELSE LET n == h[t] IN
         IF n.kind = "TextNode"
         THEN IF n.tag = <<95>>
              THEN <<38, 110, 98, 115, 112, 59>>
              ELSE n.tag
         ELSE IF n.tag = <<>>
         THEN StringAll(h, n.content)
         ELSE LET open == <<60>> \o n.tag
                          \o AttrString(n.attr, SortKeys(DOMAIN n.attr))
              IN  IF n.tag \in degenerateTags
                  THEN open \o <<47, 62>>
                  ELSE IF Len(n.content) = 0
                  THEN open \o <<62, 60, 47>> \o n.tag \o <<62>>
                  ELSE open \o <<62>> \o StringAll(h, n.content)
                       \o <<60, 47>> \o n.tag \o <<62>>

String(h, t) ==
    IF t = 0 THEN <<>>
    ELSE LET n == h[t] IN
         IF n.kind = "TextNode"
         THEN IF n.tag = <<95>>                       \* "_"
              THEN <<38, 110, 98, 115, 112, 59>>      \* "&nbsp;"
              ELSE n.tag
         ELSE IF n.tag = <<>>
         THEN StringAll(h, n.content)
         ELSE LET open == <<60>> \o n.tag
                          \o AttrString(n.attr, SortKeys(DOMAIN n.attr))
              IN  IF Len(n.content) = 0
                  THEN IF n.tag \in degenerateTags
                       THEN open \o <<47, 62>>                      \* "/>"
                       ELSE open \o <<62, 60, 47>> \o n.tag \o <<62>>
                  ELSE open \o <<62>> \o StringAll(h, n.content)
                       \o <<60, 47>> \o n.tag \o <<62>>

---------------------------------------------------------------------------
(* Parse, one loop iteration per step, and main.                           *)

NoError == [kind |-> "nil"]

\* fmt.Errorf("Error processing rune %q (line %d column %d).  %s.", ...)
RuneError(r, line, column, msg) ==
    [kind |-> "rune", rune |-> r, line |-> line, column |-> column, msg |-> msg]

\* fmt.Errorf("Parser stack contains more than the root element.  Perhaps
\* %d closing parens are missing?", ...)
StackError(n) == [kind |-> "stack", missing |-> n]

\* Where the token being read starts, after a step on the n-th code point r
\* that led from eatFn e to eatFn e2.
TokStartAfter(e, e2, r, n) ==
    IF e2 = "eatString" /\ e # "eatString" THEN n + 1
    ELSE IF e2 = "eatSymbol" /\ e = "eatAir"
    THEN (IF r \in {openParenRune, keywordStartRune} THEN n + 1 ELSE n)
    ELSE IF e2 = "eatSymbol" /\ e = "eatSymbol" /\ r = openParenRune THEN n + 1
    ELSE tokStart

\* Where the nodes allocated by a step on the n-th code point start in the
\* input: a text node where its token started, an element at its '('.
BornOfNew(h, h2, n) ==
    [k \in 1 .. (Len(h2) - Len(h)) |->
        IF h2[Len(h) + k].kind = "TextNode" THEN tokStart ELSE n]

\* The locals of Parse that the loop reads and writes.
LoopState(e, p, h, line, column) ==
    [eater |-> e, ps |-> p, heap |-> h, lineNumber |-> line,
     columnNumber |-> column]

\* rootNode, ps, eater, lineNumber and columnNumber as Parse sets them up.
InitialLoopState ==
    LoopState("eatAir",
              [context |-> "contextDefault", token |-> <<>>, key |-> <<>>,
               escapingBackslash |-> FALSE, stack |-> <<1>>],
              <<NewNode("ElementNode", <<>>)>>, 1, 0)

\* The body of the loop with the column restarting at 1 after a line break.
LoopBodyColumnFromOne(s, r) ==
    LET o == Eat(s.eater, r, s.ps, s.heap) IN
    LoopState(o.eater, o.ps, o.heap,
              IF r = newLineRune THEN s.lineNumber + 1 ELSE s.lineNumber,
              IF r = newLineRune THEN 1 ELSE s.columnNumber + 1)

\* The body of the loop on the code point r, up to the test of the eater.
LoopBody(s, r) ==
    LET o == Eat(s.eater, r, s.ps, s.heap) IN
    LoopState(o.eater, o.ps, o.heap,
              IF r = newLineRune THEN s.lineNumber + 1 ELSE s.lineNumber,
              IF r = newLineRune THEN 0 ELSE s.columnNumber + 1)

\* The failing return handing out the root together with the error.
ReturnFailedWithTree(s, r) ==
    [tree |-> s.ps.stack[1],
     err |-> RuneError(r, s.lineNumber, s.columnNumber, s.ps.token)]

\* return nil, fmt.Errorf(...) inside the loop.
ReturnFailed(s, r) ==
    [tree |-> 0, err |-> RuneError(r, s.lineNumber, s.columnNumber, s.ps.token)]

\* The statements after the loop, reporting the stack length for the number
\* of missing parens.
ReturnAtEndMiscount(s) ==
    IF Len(s.ps.stack) > 1
    THEN [tree |-> 0, err |-> StackError(Len(s.ps.stack))]
    ELSE [tree |-> s.ps.stack[1], err |-> NoError]

\* The statements after the loop.
ReturnAtEnd(s) ==
    IF Len(s.ps.stack) > 1
    THEN [tree |-> 0, err |-> StackError(Len(s.ps.stack) - 1)]
    ELSE [tree |-> s.ps.stack[1], err |-> NoError]

\* The loop from the i-th code point of w on, started in loop state s: the
\* loop state it ends in, and what Parse returns.
RECURSIVE Loop(_, _, _)
Loop(s, w, i) ==
    IF i > Len(w) THEN [state |-> s, ret |-> ReturnAtEnd(s)]
    ELSE LET t == LoopBody(s, w[i]) IN
         IF t.eater = "nil"
         THEN [state |-> t, ret |-> ReturnFailed(t, w[i])]
         ELSE Loop(t, w, i + 1)

\* Parse(rawInput) as a function: the two results and the heap they point into.
Parse(w) ==
    IF w = <<>>
    THEN [tree |-> 0, err |-> NoError, heap |-> <<>>]
    ELSE LET l == Loop(InitialLoopState, w, 1) IN
         [tree |-> l.ret.tree, err |-> l.ret.err, heap |-> l.state.heap]

---------------------------------------------------------------------------
(* Package static and ffe's main: the file server.  One directory is       *)
(* served; it holds regular files only, which stay readable, and whose     *)
(* content may change at any moment.                                       *)

\* The directory given on the command line: "web"
staticDirs == <<119, 101, 98>>

\* The flag index: "/index.htl"
index == <<47, 105, 110, 100, 101, 120, 46, 104, 116, 108>>

\* The files under the directory: web/b.htl, web/c.css, web/index.htl
FileNames ==
    { <<119, 101, 98, 47, 98, 46, 104, 116, 108>>,
      <<119, 101, 98, 47, 99, 46, 99, 115, 115>>,
      <<119, 101, 98, 47, 105, 110, 100, 101, 120, 46, 104, 116, 108>> }

\* What a file may hold: (a)  (br)  and (a which Parse rejects
Contents == { <<40, 97, 41>>, <<40, 98, 114, 41>>, <<40, 97>> }

\* filepath.Ext: the suffix of the path from the last '.' of its last
\* element, empty if there is none.
Ext(path) ==
    LET dots == {i \in 1 .. Len(path) :
                    path[i] = 46 /\ \A j \in i .. Len(path) : path[j] # 47}
    IN  IF dots = {} THEN <<>>
        ELSE SubSeq(path, CHOOSE i \in dots : \A j \in dots : j <= i, Len(path))

\* mime.TypeByExtension on ".html" and ".css"; "" for an unknown extension.
TypeByExtension(ext) ==
    CASE ext = <<46, 104, 116, 109, 108>> -> "text/html; charset=utf-8"
      [] ext = <<46, 99, 115, 115>> -> "text/css; charset=utf-8"
      [] OTHER -> ""

\* strings.TrimPrefix
TrimPrefix(s, prefix) ==
    IF Len(prefix) <= Len(s) /\ SubSeq(s, 1, Len(prefix)) = prefix
    THEN SubSeq(s, Len(prefix) + 1, Len(s))
    ELSE s

Resource(contentType, content) ==
    [ContentType |-> contentType, Content |-> content]

\* The nil *Resource.
NilResource == Resource("", <<>>)

\* htlToHTML once Parse has returned q: the resource as it is left, and the
\* error returned.
htlRendered(r, q) ==
    IF q.err # NoError
    THEN [resource |-> r, err |-> q.err]
    ELSE [resource |-> Resource(TypeByExtension(<<46, 104, 116, 109, 108>>),
                                String(q.heap, q.tree)),
          err |-> NoError]

htlToHTML(r) == htlRendered(r, Parse(r.Content))

\* ".htl": htlToHTML
transformers == (<<46, 104, 116, 108>> :> "htlToHTML")

\* ResourceFromFile once the transformer has returned t: its error in place
\* of the resource, or the resource it left.
Transformed(t) ==
    IF t.err # NoError
    THEN [resource |-> NilResource, err |-> t.err]
    ELSE [resource |-> t.resource, err |-> NoError]

\* The one transformer there is.
Transform(f, resource) ==
    CASE f = "htlToHTML" -> htlToHTML(resource)

ResourceFromFile(fsys, filename) ==
    LET ext == Ext(filename)
        resource == Resource(TypeByExtension(ext), fsys[filename])
    IN  IF ext \in DOMAIN transformers
        THEN Transformed(Transform(transformers[ext], resource))
        ELSE [resource |-> resource, err |-> NoError]

\* A handler: the closure over filename (dev mode) or over the resource.
Handler(dev, filename, resource) ==
    [dev |-> dev, filename |-> filename, resource |-> resource]

\* The non-dev branch of HandlerFuncFromFile once ResourceFromFile has
\* returned x: the error and no handler, or the handler over the resource.
CachedHandler(filename, x) ==
    IF x.err # NoError
    THEN [handler |-> Handler(FALSE, filename, NilResource), err |-> x.err,
          read |-> TRUE]
    ELSE [handler |-> Handler(FALSE, filename, x.resource), err |-> NoError,
          read |-> TRUE]

\* HandlerFuncFromFile caching in dev mode too.
HandlerFuncFromFileCached(fsys, filename, dev) ==
    CachedHandler(filename, ResourceFromFile(fsys, filename))

\* HandlerFuncFromFile: the handler, the error, and whether the file was read.
HandlerFuncFromFile(fsys, filename, dev) ==
    IF dev
    THEN [handler |-> Handler(TRUE, filename, NilResource), err |-> NoError,
          read |-> FALSE]
    ELSE CachedHandler(filename, ResourceFromFile(fsys, filename))

\* What a request gets: a handler that returns without writing leaves an
\* empty 200 response.
Response(url, status, wrote, contentType, content) ==
    [url |-> url, status |-> status, wrote |-> wrote,
     ContentType |-> contentType, Content |-> content]

NoResponse == Response(<<>>, 0, FALSE, "", <<>>)

\* What the dev handler answers once ResourceFromFile has returned x: on an
\* error it returns without writing, otherwise the resource is written.
DevServed(url, x) ==
    IF x.err # NoError
    THEN Response(url, 200, FALSE, "", <<>>)
    ELSE Response(url, 200, TRUE, x.resource.ContentType, x.resource.Content)

\* The non-dev handler: the resource made at start-up is written.
CachedServed(url, h) ==
    Response(url, 200, TRUE, h.resource.ContentType, h.resource.Content)

\* What ResourceFromFile returns to a handler that has yet to call it.
NoResult == [resource |-> NilResource, err |-> NoError]

\* The handler the mux has for no pattern.
NoHandler == Handler(FALSE, <<>>, NilResource)

\* A request being served on its goroutine: the handler the mux picked for
\* its path (found) or none, where the goroutine stands ("read": the dev
\* handler is about to call ResourceFromFile; "print": it is about to print
\* the error ResourceFromFile returned; "write": the response is about to
\* be written), what ResourceFromFile returned to it and the content
\* ioutil.ReadFile found.
Conn(url, found, h, stage, x, content) ==
    [url |-> url, found |-> found, h |-> h, stage |-> stage, x |-> x,
     content |-> content]

\* The goroutine started for a request for url: the mux picks the handler
\* registered for the path, or the one registered for "/".  The dev handler
\* starts by reading the file, the others by writing.
Serving(m, url) ==
    IF url \in DOMAIN m
    THEN Conn(url, TRUE, m[url], IF m[url].dev THEN "read" ELSE "write",
              NoResult, <<>>)
    ELSE IF <<47>> \in DOMAIN m
    THEN Conn(url, TRUE, m[<<47>>], IF m[<<47>>].dev THEN "read" ELSE "write",
              NoResult, <<>>)
    ELSE Conn(url, FALSE, NoHandler, "write", NoResult, <<>>)

\* http.NotFound: "404 page not found" and a line break.
NotFound(url) ==
    Response(url, 404, TRUE, "text/plain; charset=utf-8",
             <<52, 48, 52, 32, 112, 97, 103, 101, 32, 110, 111, 116, 32, 102,
               111, 117, 110, 100, 10>>)

\* The state of the server when main calls HandlersFromDirs, in mode dev
\* over the files fsys: Walk is about to visit the directory and then its
\* files in lexical order.
ServerStart(dev, fsys) ==
    /\ devMode = dev
    /\ files = fsys
    /\ spc = "walk"
    /\ walk = <<staticDirs>> \o SortKeys(FileNames)
    /\ handlers = <<>>
    /\ mux = <<>>
    /\ conns = EmptyBag
    /\ response = NoResponse
    /\ printed = <<>>
    /\ fatal = NoError
    /\ nRequests = 0
    /\ nEdits = 0
    /\ nRead = [f \in FileNames |-> 0]
    /\ asRead = [f \in FileNames |-> <<>>]
    /\ readFor = <<>>

---------------------------------------------------------------------------
(* The command-line program.                                               *)

\* The state at the head of the loop of Parse: the root node allocated, the
\* parse state constructed, nothing consumed.
ParseInit ==
    /\ rawInput = <<>>
    /\ pending = <<>>
    /\ script = <<>>
    /\ pc = "loop"
    /\ eater = InitialLoopState.eater
    /\ heap = InitialLoopState.heap
    /\ ps = InitialLoopState.ps
    /\ lineNumber = InitialLoopState.lineNumber
    /\ columnNumber = InitialLoopState.columnNumber
    /\ ret = [tree |-> 0, err |-> NoError]
    /\ stdout = <<>>
    /\ stderr = <<>>
    /\ nOpen = 0
    /\ nClose = 0
    /\ tokStart = 1
    /\ born = <<0>>

\* The command-line program at the head of the loop of Parse; the server is
\* not running (dev-mode has its default, true).
Init ==
    /\ ParseInit
    /\ ServerStart(TRUE, [f \in FileNames |-> <<40, 97, 41>>])

\* One iteration of the loop over the code points of rawInput, on the code
\* point r; a failing step returns the error at once.
ParseLoop(r) ==
    /\ pc = "loop"
    /\ LET s == LoopBody(LoopState(eater, ps, heap, lineNumber, columnNumber), r)
           n == Len(rawInput) + 1
           asParen == eater \in {"eatAir", "eatSymbol"} /\ s.eater # "nil"
       IN  /\ rawInput' = Append(rawInput, r)
           /\ eater' = s.eater
           /\ ps' = s.ps
           /\ heap' = s.heap
           /\ lineNumber' = s.lineNumber
           /\ columnNumber' = s.columnNumber
           /\ IF s.eater = "nil"
              THEN /\ pc' = "returned"
                   /\ ret' = ReturnFailed(s, r)
              ELSE /\ pc' = "loop"
                   /\ ret' = ret
           /\ nOpen' = IF asParen /\ r = openParenRune THEN nOpen + 1 ELSE nOpen
           /\ nClose' = IF asParen /\ r = closeParenRune THEN nClose + 1 ELSE nClose
           /\ tokStart' = TokStartAfter(eater, s.eater, r, n)
           /\ born' = born \o BornOfNew(heap, s.heap, n)
    /\ UNCHANGED <<stdout, stderr>>
    /\ UNCHANGED serverVars

\* if rawInput == "" { return nil, nil }
ParseEmpty ==
    /\ pc = "loop"
    /\ rawInput = <<>>
    /\ pending = <<>>
    /\ pc' = "returned"
    /\ ret' = [tree |-> 0, err |-> NoError]
    /\ UNCHANGED <<rawInput, pending, script, eater, ps, heap, lineNumber,
                   columnNumber, stdout, stderr, nOpen, nClose, tokStart,
                   born>>
    /\ UNCHANGED serverVars

\* The input is exhausted: the test of the stack and the return of the root.
ParseReturn ==
    /\ pc = "loop"
    /\ rawInput # <<>>
    /\ pending = <<>>
    /\ pc' = "returned"
    /\ ret' = ReturnAtEnd(LoopState(eater, ps, heap, lineNumber, columnNumber))
    /\ UNCHANGED <<rawInput, pending, script, eater, ps, heap, lineNumber,
                   columnNumber, stdout, stderr, nOpen, nClose, tokStart,
                   born>>
    /\ UNCHANGED serverVars

\* main: the error goes to standard error, else the rendered tree and a line
\* break go to standard output.
MainPrint ==
    /\ pc = "returned"
    /\ pc' = "printed"
    /\ IF ret.err # NoError
       THEN /\ stderr' = Append(stderr, ret.err)
            /\ stdout' = stdout
       ELSE /\ stdout' = stdout \o String(heap, ret.tree) \o <<10>>
            /\ stderr' = stderr
    /\ UNCHANGED <<rawInput, pending, script, eater, ps, heap, lineNumber,
                   columnNumber, ret, nOpen, nClose, tokStart, born>>
    /\ UNCHANGED serverVars

---------------------------------------------------------------------------
(* The inputs.                                                             *)

\* Every input of at most MaxLen code points over Alphabet.
MaxLen == 5

\* ( ) " \ : ; line-break space a
Alphabet ==
    {openParenRune, closeParenRune, quoteRune, escapingRune, keywordStartRune,
     commentStartRune, newLineRune, 32, 97}

\* Every input of at most `max` code points over `alphabet`.
FeedRunes(alphabet, max) ==
    \E r \in alphabet :
        /\ Len(rawInput) < max
        /\ ParseLoop(r)
        /\ UNCHANGED <<pending, script>>

FeedRune == FeedRunes(Alphabet, MaxLen)

\* The inputs around comments: ( ) " : ; line-break space a
MaxCommentLen == 4

CommentAlphabet ==
    {openParenRune, closeParenRune, quoteRune, keywordStartRune,
     commentStartRune, newLineRune, 32, 97}

FeedComment == FeedRunes(CommentAlphabet, MaxCommentLen)

\* Every concatenation of at most `max` fragments of the table `table`.
FeedFrag(table, max) ==
    \/ /\ pending # <<>>
       /\ ParseLoop(Head(pending))
       /\ pending' = Tail(pending)
       /\ UNCHANGED script
    \/ /\ pending = <<>>
       /\ Len(script) < max
       /\ \E i \in DOMAIN table :
              /\ ParseLoop(Head(table[i]))
              /\ pending' = Tail(table[i])
              /\ script' = Append(script, i)

MaxFrags == 4

\*   1: (a            opens an element with tag a
\*   2: (br           opens an element with the void tag br
\*   3: )             closes an element
\*   4: :y 1          attribute y, bare value
\*   5: :x <2         attribute x, bare value holding '<'
\*   6: :x "<\n"      attribute x, quoted value: '<', backslash, n
\*   7: b&c           bare text holding '&'
\*   8: "'\""         quoted text: an apostrophe, backslash, double quote
\*   9: "             a lone double quote
\* (1, 2 and 4 to 8 end with a space.)
Fragments ==
    <<<<40, 97, 32>>,
       <<40, 98, 114, 32>>,
       <<41>>,
       <<58, 121, 32, 49, 32>>,
       <<58, 120, 32, 60, 50, 32>>,
       <<58, 120, 32, 34, 60, 92, 110, 34, 32>>,
       <<98, 38, 99, 32>>,
       <<34, 39, 92, 34, 34, 32>>,
       <<34>>>>

FeedToken == FeedFrag(Fragments, MaxFrags)

Next == FeedRune \/ ParseEmpty \/ ParseReturn \/ MainPrint

Spec == Init /\ [][Next]_vars

NextTok == FeedToken \/ ParseEmpty \/ ParseReturn \/ MainPrint

SpecTok == Init /\ [][NextTok]_vars

\* Deep nesting: a run of maxStackDepth - 1 opening parens, which fills the
\* stack to its cap, combined with single code points before and after it.
MaxDeepFrags == 4

\*   1: '(' repeated maxStackDepth - 1 times   2: (   3: )   4: a   5: space
DeepFragments ==
    <<[i \in 1 .. (maxStackDepth - 1) |-> openParenRune],
      <<openParenRune>>, <<closeParenRune>>, <<97>>, <<32>>>>

FeedDeep == FeedFrag(DeepFragments, MaxDeepFrags)

NextDeep == FeedDeep \/ ParseEmpty \/ ParseReturn \/ MainPrint

SpecDeep == Init /\ [][NextDeep]_vars

NextComment == FeedComment \/ ParseEmpty \/ ParseReturn \/ MainPrint

SpecComment == Init /\ [][NextComment]_vars

\* Attributes: an element, a key, and what may come between the key and its
\* value.
MaxAttrFrags == 5

\*   1: (a    opens an element with tag a (ends with a space)
\*   2: :k    starts the attribute key k
\*   3: a space   4: (   5: )   6: v   7: "   8: a comment, ; and a line break
AttrFragments ==
    <<<<40, 97, 32>>, <<58, 107>>, <<32>>, <<40>>, <<41>>, <<118>>, <<34>>,
      <<59, 10>>>>

FeedAttr == FeedFrag(AttrFragments, MaxAttrFrags)

NextAttr == FeedAttr \/ ParseEmpty \/ ParseReturn \/ MainPrint

SpecAttr == Init /\ [][NextAttr]_vars

---------------------------------------------------------------------------
(* The file server: start-up, requests and changes to the files.           *)

MaxRequests == 2

MaxEdits == 1

\* The function Walk calls on the next path.  The directory itself is
\* skipped; an error of HandlerFuncFromFile ends the walk, HandlersFromDirs
\* returns it and main hands it to log.Fatal, which exits.
WalkFn ==
    /\ spc = "walk"
    /\ walk # <<>>
    /\ LET path == Head(walk)
           subpath == TrimPrefix(path, staticDirs)
       IN  IF subpath = <<>>
           THEN /\ walk' = Tail(walk)
                /\ UNCHANGED <<handlers, spc, fatal, nRead, asRead>>
           ELSE \E h \in {HandlerFuncFromFile(files, path, devMode)} :
                /\ nRead' = IF h.read THEN [nRead EXCEPT ![path] = @ + 1] ELSE nRead
                /\ asRead' = IF h.read THEN [asRead EXCEPT ![path] = files[path]]
                             ELSE asRead
                /\ IF h.err # NoError
                   THEN /\ spc' = "exited"
                        /\ fatal' = h.err
                        /\ UNCHANGED <<walk, handlers>>
                   ELSE /\ handlers' = MapStore(handlers, subpath, h.handler)
                        /\ walk' = Tail(walk)
                        /\ UNCHANGED <<spc, fatal>>
    /\ UNCHANGED <<devMode, files, mux, conns, response, printed, nRequests,
                   nEdits, readFor>>
    /\ UNCHANGED parseVars

\* main, once HandlersFromDirs has returned the map: every path is
\* registered with http.HandleFunc, the index under "/" as well, and the
\* server listens.
Register ==
    /\ spc = "walk"
    /\ walk = <<>>
    /\ mux' = IF index \in DOMAIN handlers
              THEN MapStore(handlers, <<47>>, handlers[index])
              ELSE handlers
    /\ spc' = "serve"
    /\ UNCHANGED <<devMode, files, walk, handlers, conns, response, printed,
                   fatal, nRequests, nEdits, nRead, asRead, readFor>>
    /\ UNCHANGED parseVars

\* The paths requested: those of the files and "/".
RequestURLs == {TrimPrefix(f, staticDirs) : f \in FileNames} \cup {<<47>>}

\* The server accepts a request for url and starts a goroutine to serve it.
Accept(url) ==
    /\ spc = "serve"
    /\ nRequests + BagCardinality(conns) < MaxRequests
    /\ conns' = conns (+) SetToBag({Serving(mux, url)})
    /\ UNCHANGED <<devMode, files, spc, walk, handlers, mux, response, printed,
                   fatal, nRequests, nEdits, nRead, asRead, readFor>>
    /\ UNCHANGED parseVars

\* The dev handler of the request c calls ResourceFromFile: the file is
\* read as it is now, and transformed.
HandlerRead(c) ==
    /\ spc = "serve"
    /\ c.stage = "read"
    /\ \E x \in {ResourceFromFile(files, c.h.filename)} :
           conns' = (conns (-) SetToBag({c}))
                    (+) SetToBag({Conn(c.url, c.found, c.h,
                                       IF x.err # NoError THEN "print" ELSE "write",
                                       x, files[c.h.filename])})
    /\ nRead' = [nRead EXCEPT ![c.h.filename] = @ + 1]
    /\ asRead' = [asRead EXCEPT ![c.h.filename] = files[c.h.filename]]
    /\ UNCHANGED <<devMode, files, spc, walk, handlers, mux, response, printed,
                   fatal, nRequests, nEdits, readFor>>
    /\ UNCHANGED parseVars

\* The dev handler of the request c prints the error ResourceFromFile
\* returned; it has yet to return.
HandlerPrint(c) ==
    /\ spc = "serve"
    /\ c.stage = "print"
    /\ printed' = Append(printed, c.x.err)
    /\ conns' = (conns (-) SetToBag({c}))
                (+) SetToBag({Conn(c.url, c.found, c.h, "write", c.x, c.content)})
    /\ UNCHANGED <<devMode, files, spc, walk, handlers, mux, response, fatal,
                   nRequests, nEdits, nRead, asRead, readFor>>
    /\ UNCHANGED parseVars

\* The request c is answered: the dev handler that printed an error has
\* returned and the server sends the empty response, or the dev handler
\* writes the resource it made; the non-dev handler writes the resource
\* made at start-up; without a handler the mux answers not found.
HandlerWrite(c) ==
    /\ spc = "serve"
    /\ c.stage = "write"
    /\ response' = IF ~c.found THEN NotFound(c.url)
                   ELSE IF c.h.dev THEN DevServed(c.url, c.x)
                   ELSE CachedServed(c.url, c.h)
    /\ readFor' = c.content
    /\ nRequests' = nRequests + 1
    /\ conns' = conns (-) SetToBag({c})
    /\ UNCHANGED <<devMode, files, spc, walk, handlers, mux, printed, fatal,
                   nEdits, nRead, asRead>>
    /\ UNCHANGED parseVars

\* Somebody changes the content of a file.
EditFile(f, c) ==
    /\ spc # "exited"
    /\ nEdits < MaxEdits
    /\ files[f] # c
    /\ files' = [files EXCEPT ![f] = c]
    /\ nEdits' = nEdits + 1
    /\ UNCHANGED <<devMode, spc, walk, handlers, mux, conns, response, printed,
                   fatal, nRequests, nRead, asRead, readFor>>
    /\ UNCHANGED parseVars

\* http.ListenAndServe: requests are accepted and served concurrently.
Serve ==
    \/ \E url \in RequestURLs : Accept(url)
    \/ \E c \in BagToSet(conns) : HandlerRead(c)
    \/ \E c \in BagToSet(conns) : HandlerPrint(c)
    \/ \E c \in BagToSet(conns) : HandlerWrite(c)

Edit == \E f \in FileNames : \E c \in Contents : EditFile(f, c)

\* The server started in either mode over any content of the files.
InitServer ==
    /\ ParseInit
    /\ \E dev \in BOOLEAN : \E fsys \in [FileNames -> Contents] :
           ServerStart(dev, fsys)

NextServer == WalkFn \/ Register \/ Serve \/ Edit

SpecServer == InitServer /\ [][NextServer]_vars

---------------------------------------------------------------------------
(* Properties.                                                             *)

\* Parse has returned (main may have printed since).
Returned == pc \in {"returned", "printed"}

\* The code point the step rawInput -> rawInput' consumed.
LastRune(w) == w[Len(w)]

\* The step e(r, &p) reads r as an opening (closing) paren and is not
\* rejected for coming between an attribute's key and its value.
OpensParen(e, p, r) ==
    /\ r = openParenRune
    /\ \/ e = "eatAir" /\ p.context # "contextAfterAttrKey"
       \/ e = "eatSymbol" /\ p.context # "contextAttrKey"

ClosesParen(e, p, r) ==
    /\ r = closeParenRune
    /\ \/ e = "eatAir" /\ p.context # "contextAfterAttrKey"
       \/ e = "eatSymbol" /\ p.context # "contextAttrKey"

\* Node n is a child of some node of heap h.
Linked(h, n) ==
    \E i \in 1 .. Len(h) : \E j \in 1 .. Len(h[i].content) : h[i].content[j] = n

\* C1: when the whole input has been consumed without a failing step, Parse
\* returns an error and no tree exactly when the stack holds more than one
\* frame, and the number of missing parens it reports is the stack length
\* minus one, which is the number of elements opened and not yet closed.
C1_MissingParens ==
    (Returned /\ rawInput # <<>> /\ eater # "nil") =>
        /\ (ret.err # NoError /\ ret.tree = 0) <=> (Len(ps.stack) > 1)
        /\ (ret.err = NoError /\ ret.tree # 0) <=> (Len(ps.stack) = 1)
        /\ Len(ps.stack) > 1 =>
               /\ ret.err = StackError(Len(ps.stack) - 1)
               /\ ret.err.missing = nOpen - nClose

C1_Witness ==
    /\ pc = "returned"
    /\ eater # "nil"
    /\ ret.err.kind = "stack"
    /\ ret.err.missing = 2
    /\ nClose >= 1

\* C2: the bottom slot of the stack is the root in every state; a ')' read
\* with only the root on the stack fails with "unexpected closing paren",
\* any other ')' removes exactly the top frame and sets the context to
\* Default; no other step removes a frame.
StackRooted ==
    /\ Len(ps.stack) >= 1
    /\ ps.stack[1] = 1
    /\ heap[1].kind = "ElementNode"

C2_PopStep ==
    rawInput' # rawInput =>
        IF ClosesParen(eater, ps, LastRune(rawInput'))
        THEN IF Len(ps.stack) = 1
             THEN /\ eater' = "nil"
                  /\ pc' = "returned"
                  /\ ret'.tree = 0
                  /\ ret'.err.kind = "rune"
                  /\ ret'.err.msg = MsgUnexpectedClosingParen
                  /\ ps'.stack = ps.stack
             ELSE /\ eater' = "eatAir"
                  /\ ps'.stack = SubSeq(ps.stack, 1, Len(ps.stack) - 1)
                  /\ ps'.context = "contextDefault"
        ELSE /\ Len(ps'.stack) >= Len(ps.stack)
             /\ SubSeq(ps'.stack, 1, Len(ps.stack)) = ps.stack

C2_RootNeverPopped == StackRooted /\ [][StackRooted' /\ C2_PopStep]_vars

C2_Witness ==
    /\ pc = "returned"
    /\ ret.err.kind = "rune"
    /\ ret.err.msg = MsgUnexpectedClosingParen
    /\ Len(ps.stack) = 1
    /\ nClose >= 1

\* C3 as amended: the stack never holds more than maxStackDepth frames; a
\* '(' read with maxStackDepth frames on the stack fails with "tree too
\* deep", pushes nothing and leaves the element it allocated unlinked (the
\* token pending in eatSymbol is committed before); a '(' read with fewer
\* frames pushes a new empty-tagged element, linked as the last child of the
\* former top.
C3_PushStep ==
    (rawInput' # rawInput /\ OpensParen(eater, ps, LastRune(rawInput'))) =>
        LET new == Len(heap') IN
        IF Len(ps.stack) >= maxStackDepth
        THEN /\ eater' = "nil"
             /\ ret'.tree = 0
             /\ ret'.err.kind = "rune"
             /\ ret'.err.msg = MsgTreeTooDeep
             /\ ps'.stack = ps.stack
             /\ heap'[new] = NewNode("ElementNode", <<>>)
             /\ ~Linked(heap', new)
        ELSE /\ eater' = "eatSymbol"
             /\ ps'.context = "contextTag"
             /\ ps'.stack = Append(ps.stack, new)
             /\ heap'[new] = NewNode("ElementNode", <<>>)
             /\ LastRune(heap'[currentNode(ps)].content) = new

C3_DepthBounded ==
    /\ Len(ps.stack) <= maxStackDepth
    /\ [][Len(ps'.stack) <= maxStackDepth /\ C3_PushStep]_vars

C3_Witness ==
    /\ pc = "returned"
    /\ ret.err.kind = "rune"
    /\ ret.err.msg = MsgTreeTooDeep
    /\ Len(ps.stack) = maxStackDepth

\* C3 as stated: a '(' read with maxStackDepth frames on the stack links no
\* new node into the tree.
C3_NothingLinked ==
    [][(/\ rawInput' # rawInput
        /\ OpensParen(eater, ps, LastRune(rawInput'))
        /\ Len(ps.stack) >= maxStackDepth)
       => \A i \in 1 .. Len(heap) : heap'[i].content = heap[i].content]_vars

\* C4: if the input ends inside a double-quoted string, Parse returns an
\* error and no tree, whatever the depth of the stack.
C4_UnterminatedString ==
    (Returned /\ eater = "eatString") => (ret.err # NoError /\ ret.tree = 0)

\* The texts put between ';' and the line break of an inserted comment:
\* empty, )\ and ";(
CommentBodies == { <<>>, <<41, 92>>, <<34, 59, 40>> }

\* w with the code points of c inserted after its first p code points.
InsertAt(w, p, c) == SubSeq(w, 1, p) \o c \o SubSeq(w, p + 1, Len(w))

\* The eatFn that is active once the first p code points of w are consumed.
EaterAfter(w, p) == Loop(InitialLoopState, SubSeq(w, 1, p), 1).state.eater

\* Parse of the consumed input with a comment inserted at a position where
\* eatAir is active returns what Parse of the consumed input returned: the
\* same tree over the same nodes, or the same kind of error with the same
\* diagnostic.
C5_SameTree ==
    (pc = "returned" /\ rawInput # <<>>) =>
        \A p \in 0 .. Len(rawInput) :
            EaterAfter(rawInput, p) = "eatAir" =>
                \A c \in CommentBodies :
                    LET q == Parse(InsertAt(rawInput, p,
                                   <<commentStartRune>> \o c \o <<newLineRune>>))
                    IN  /\ q.tree = ret.tree
                        /\ q.heap = heap
                        /\ q.err.kind = ret.err.kind
                        /\ ret.err.kind = "rune" =>
                               /\ q.err.rune = ret.err.rune
                               /\ q.err.msg = ret.err.msg
                        /\ ret.err.kind = "stack" => q.err = ret.err

\* The ';' read by eatAir and every code point read by eatComment leave the
\* parse state and the tree alone; the line break hands control to eatAir.
C5_CommentStep ==
    rawInput' # rawInput =>
        /\ (eater = "eatAir" /\ LastRune(rawInput') = commentStartRune) =>
               /\ eater' = "eatComment"
               /\ ps' = ps
               /\ heap' = heap
        /\ eater = "eatComment" =>
               /\ eater' = IF LastRune(rawInput') = newLineRune
                           THEN "eatAir" ELSE "eatComment"
               /\ ps' = ps
               /\ heap' = heap

\* C5: comments are transparent: inserting a line comment where eatAir is
\* active changes neither the tree nor whether Parse fails, and while the
\* comment is consumed the context, the token buffer, the pending key, the
\* escape flag and the stack stay as they were before the ';'.  (Every
\* state in which Parse has just returned has a MainPrint step, so the
\* action formula tests C5_SameTree in each of them.)
C5_CommentsTransparent == [][C5_SameTree /\ C5_CommentStep]_vars

\* A comment was consumed after a committed token, with a context other
\* than Default in force, and Parse went on to return the tree.
C5_Witness ==
    /\ pc = "returned"
    /\ ret.tree # 0
    /\ Len(heap) > 1
    /\ ps.context = "contextAfterTag"
    /\ \E i \in 1 .. Len(rawInput) - 1 :
           /\ EaterAfter(rawInput, i) = "eatComment"
           /\ EaterAfter(rawInput, i + 1) = "eatAir"

\* C6: Parse returns a tree or an error, never both and, but for the empty
\* input, never neither; the empty input yields neither; a failing step
\* returns at once, with the error of that step and no tree, however much
\* of the tree was built.
C6_ExactlyOneResult ==
    /\ Returned =>
           IF rawInput = <<>>
           THEN ret.tree = 0 /\ ret.err = NoError
           ELSE (ret.tree # 0) # (ret.err # NoError)
    /\ eater = "nil" =>
           /\ Returned
           /\ ret.tree = 0
           /\ ret.err.kind = "rune"
           /\ ret.err.rune = LastRune(rawInput)
    /\ pc = "loop" => ret = [tree |-> 0, err |-> NoError]

\* A step failed after part of the tree had been built.
C6_Witness ==
    /\ pc = "returned"
    /\ ret.err.kind = "rune"
    /\ ret.tree = 0
    /\ Len(heap[1].content) >= 1

\* The number of line breaks among the first n code points of w, and the
\* index of the last of them (0 if there is none).
LineBreaks(w, n) == Cardinality({i \in 1 .. n : w[i] = newLineRune})

LastLineBreak(w, n) ==
    LET breaks == {i \in 1 .. n : w[i] = newLineRune} IN
    IF breaks = {} THEN 0 ELSE CHOOSE i \in breaks : \A j \in breaks : j <= i

\* C7: the error of a failing step names the code point of that step, the
\* last one consumed, with line = 1 + the line breaks before it and column
\* = its 1-based index within its line; the counters are 1 + the line
\* breaks consumed, and the code points consumed since the last of them; a
\* line break never fails.
C7_ErrorPosition ==
    LET n == Len(rawInput) IN
    /\ lineNumber = 1 + LineBreaks(rawInput, n)
    /\ columnNumber = n - LastLineBreak(rawInput, n)
    /\ (Returned /\ ret.err.kind = "rune") =>
           /\ eater = "nil"
           /\ ret.err.rune = rawInput[n]
           /\ rawInput[n] # newLineRune
           /\ ret.err.line = 1 + LineBreaks(rawInput, n - 1)
           /\ ret.err.column = n - LastLineBreak(rawInput, n - 1)
           /\ \A k \in 0 .. n - 1 : EaterAfter(rawInput, k) # "nil"
    /\ (eater # "nil" /\ n > 0 /\ rawInput[n] = newLineRune) => columnNumber = 0

\* A step failed on the second code point of the second line.
C7_Witness ==
    /\ pc = "returned"
    /\ ret.err.kind = "rune"
    /\ ret.err.line = 2
    /\ ret.err.column = 2

\* The HTML map and the escape table as the specification states them.
C8_Html(r) ==
    CASE r = 60 -> <<38, 108, 116, 59>>            \* <  &lt;
      [] r = 62 -> <<38, 103, 116, 59>>            \* >  &gt;
      [] r = 38 -> <<38, 97, 109, 112, 59>>        \* &  &amp;
      [] r = 39 -> <<38, 97, 112, 111, 115, 59>>   \* '  &apos;
      [] r = 34 -> <<38, 113, 117, 111, 116, 59>>  \* "  &quot;
      [] OTHER -> <<r>>

C8_Escaped(r) ==
    CASE r = 102 -> <<12>>
      [] r = 110 -> <<10>>
      [] r = 114 -> <<13>>
      [] r = 116 -> <<9>>
      [] r = 118 -> <<11>>
      [] OTHER -> C8_Html(r)

\* The text of the code points raw read inside double quotes: per code
\* point, the escape table after a backslash and the HTML map otherwise (a
\* backslash at the very end is still waiting for its code point).
RECURSIVE C8_Quoted(_)
C8_Quoted(raw) ==
    IF raw = <<>> THEN <<>>
    ELSE IF Head(raw) = escapingRune
    THEN IF Len(raw) = 1 THEN <<>>
         ELSE C8_Escaped(raw[2]) \o C8_Quoted(SubSeq(raw, 3, Len(raw)))
    ELSE C8_Html(Head(raw)) \o C8_Quoted(Tail(raw))

\* The code points of the token being read, as they stand in the input.
C8_Raw == SubSeq(rawInput, tokStart, Len(rawInput))

\* The token buffer while a token is read.
C8_TokenText ==
    /\ eater = "eatString" => ps.token = C8_Quoted(C8_Raw)
    /\ eater = "eatSymbol" => ps.token = C8_Raw

\* The step on r commits the token.
C8_Commits(r) ==
    \/ eater = "eatString" /\ ~ps.escapingBackslash /\ r = quoteRune
    \/ /\ eater = "eatSymbol"
       /\ \/ r = quoteRune
          \/ IsSpace(r)
          \/ r \in {openParenRune, closeParenRune} /\ ps.context # "contextAttrKey"

\* Where the committed text lands: the tag of the top element, the pending
\* key, the value of the pending key in the top element, or a new text
\* child of the top element.
C8_CommitStep ==
    (rawInput' # rawInput /\ C8_Commits(LastRune(rawInput'))) =>
        LET text == IF eater = "eatString" THEN C8_Quoted(C8_Raw) ELSE C8_Raw
            cur == currentNode(ps)
        IN  CASE ps.context = "contextTag" -> heap'[cur].tag = text
              [] ps.context = "contextAttrKey" -> ps'.key = text
              [] ps.context = "contextAttrValue" ->
                     /\ ps.key \in DOMAIN heap'[cur].attr
                     /\ heap'[cur].attr[ps.key] = text
              [] ps.context = "contextContent" ->
                     LET k == Len(heap[cur].content) + 1 IN
                     /\ Len(heap'[cur].content) >= k
                     /\ heap'[heap'[cur].content[k]] = NewNode("TextNode", text)

\* C8: a token's text is HTML-escaped exactly when it was read inside double
\* quotes: the text committed from a quoted string is, per code point, the
\* escape table after a backslash and the HTML map otherwise; the text
\* committed from a bare token is the code points read, whether it becomes
\* a tag, an attribute key, an attribute value or a text child.
C8_EscapedIffQuoted == [][C8_TokenText /\ C8_CommitStep]_vars

\* Parse returned a tree holding the quoted attribute value "<\n" escaped
\* to &lt; and a line break, under the bare key x, and the bare text b&c as
\* it was read.
C8_Witness ==
    /\ pc = "returned"
    /\ ret.tree # 0
    /\ \E n \in 1 .. Len(heap) :
           /\ <<120>> \in DOMAIN heap[n].attr
           /\ heap[n].attr[<<120>>] = <<38, 108, 116, 59, 10>>
           /\ heap[n].tag = <<97>>
    /\ \E n \in 1 .. Len(heap) :
           heap[n] = NewNode("TextNode", <<98, 38, 99>>)

\* The input a script of fragments spells.
RECURSIVE Flatten(_)
Flatten(scr) ==
    IF scr = <<>> THEN <<>> ELSE Fragments[Head(scr)] \o Flatten(Tail(scr))

IsPrefix(a, b) == Len(a) <= Len(b) /\ SubSeq(b, 1, Len(a)) = a

IsSuffix(a, b) ==
    Len(a) <= Len(b) /\ SubSeq(b, Len(b) - Len(a) + 1, Len(b)) = a

\* The fragments that spell one attribute, and the key each gives.
C9_AttrFrags == {4, 5, 6}

C9_KeyOf(i) == IF i = 4 THEN <<121>> ELSE <<120>>

\* Lexicographic order of code point sequences, as the specification means it.
RECURSIVE C9_Before(_, _)
C9_Before(a, b) ==
    IF b = <<>> THEN FALSE
    ELSE IF a = <<>> THEN TRUE
    ELSE IF Head(a) = Head(b) THEN C9_Before(Tail(a), Tail(b))
    ELSE Head(a) < Head(b)

\* The keys of attr in ascending order.
C9_Ascending(attr) ==
    LET D == DOMAIN attr
        N == Cardinality(D)
    IN  CHOOSE ks \in [1 .. N -> D] :
            \A i \in 1 .. N : \A j \in 1 .. N : i < j => C9_Before(ks[i], ks[j])

\* The rendering of every tagged element starts with '<', the tag and the
\* attributes in ascending order of key, and nothing but '>' or '/>' follows
\* them.
C9_AscendingKeys ==
    \A n \in 1 .. Len(heap) :
        (heap[n].kind = "ElementNode" /\ heap[n].tag # <<>>) =>
            LET r == String(heap, n)
                open == <<60>> \o heap[n].tag
                        \o AttrString(heap[n].attr, C9_Ascending(heap[n].attr))
            IN  /\ IsPrefix(open, r)
                /\ r[Len(open) + 1] \in {62, 47}

\* The script's fragment i is read as an attribute of the top element: the
\* parser is between tokens, right after a tag or a complete attribute.
C9_AtAttribute(scr, i) ==
    LET st == Loop(InitialLoopState, Flatten(SubSeq(scr, 1, i - 1)), 1).state
    IN  st.eater = "eatAir" /\ st.ps.context = "contextAfterTag"

C9_Swap(scr, i) ==
    [k \in 1 .. Len(scr) |->
        IF k = i THEN scr[i + 1] ELSE IF k = i + 1 THEN scr[i] ELSE scr[k]]

C9_Remove(scr, i) == SubSeq(scr, 1, i - 1) \o SubSeq(scr, i + 1, Len(scr))

\* What Parse and String make of the input w: the rendering of the root
\* and the kind of error.
C9_Rendered(w) ==
    LET p == Parse(w) IN [out |-> String(p.heap, 1), err |-> p.err.kind]

\* Exchanging two adjacent attributes with distinct keys, or dropping the
\* earlier of two attributes of one element with the same key, leaves the
\* rendering as it is.
C9_OrderIndependent ==
    (pc = "printed" /\ ret.err.kind # "rune") =>
        LET here == [out |-> String(heap, 1), err |-> ret.err.kind] IN
        /\ ret.err = NoError => stdout = String(heap, ret.tree) \o <<10>>
        /\ \A i \in 1 .. Len(script) - 1 :
               (/\ script[i] \in C9_AttrFrags
                /\ script[i + 1] \in C9_AttrFrags
                /\ C9_KeyOf(script[i]) # C9_KeyOf(script[i + 1])
                /\ C9_AtAttribute(script, i))
               => C9_Rendered(Flatten(C9_Swap(script, i))) = here
        /\ \A i \in 1 .. Len(script) - 1 : \A j \in i + 1 .. Len(script) :
               (/\ \A k \in i .. j : script[k] \in C9_AttrFrags
                /\ C9_KeyOf(script[i]) = C9_KeyOf(script[j])
                /\ C9_AtAttribute(script, i))
               => C9_Rendered(Flatten(C9_Remove(script, i))) = here

\* C9: an element's attributes are rendered in ascending lexicographic order
\* of key whatever their order in the input: inputs that differ in the
\* order of attributes with distinct keys render alike, and of two values
\* given for one key only the last is rendered.
C9_AttributesSorted == C9_AscendingKeys /\ C9_OrderIndependent

\* (a :y 1 :x "<\n" ) was printed as <a x="&lt;(line break)" y="1"></a>.
C9_Witness ==
    /\ pc = "printed"
    /\ script = <<1, 4, 6, 3>>
    /\ stdout = <<60, 97, 32, 120, 61, 34, 38, 108, 116, 59, 10, 34, 32, 121, 61, 34, 49, 34, 62, 60, 47, 97, 62, 10>>

\* The void tags, as the specification lists them: br, hr, link, img, meta.
C10_Void ==
    { <<98, 114>>, <<104, 114>>, <<108, 105, 110, 107>>, <<105, 109, 103>>,
      <<109, 101, 116, 97>> }

\* C10: the rendering of a tagged element starts with '<' and the tag and
\* has one closing form: "/>" when it has no children and a void tag,
\* "></tag>" when it has no children and another tag, and '>', the children
\* in order and "</tag>" when it has children, void tag or not.
C10_ClosingForm ==
    /\ (pc = "printed" /\ ret.err = NoError) =>
           stdout = String(heap, ret.tree) \o <<10>>
    /\ \A n \in 1 .. Len(heap) :
           (heap[n].kind = "ElementNode" /\ heap[n].tag # <<>>) =>
               LET t == heap[n].tag
                   r == String(heap, n)
                   open == <<60>> \o t
                           \o AttrString(heap[n].attr, SortKeys(DOMAIN heap[n].attr))
                   close == <<60, 47>> \o t \o <<62>>
                   kids == StringAll(heap, heap[n].content)
               IN  /\ IsPrefix(<<60>> \o t, r)
                   /\ IF heap[n].content = <<>>
                      THEN IF t \in C10_Void
                           THEN r = open \o <<47, 62>>
                           ELSE r = open \o <<62>> \o close
                      ELSE r = open \o <<62>> \o kids \o close
                   /\ IsSuffix(<<47, 62>>, r) <=>
                          (heap[n].content = <<>> /\ t \in C10_Void)
                   /\ IsSuffix(close, r) <=>
                          ~(heap[n].content = <<>> /\ t \in C10_Void)

\* (br (br )) was printed as <br><br/></br>.
C10_Witness ==
    /\ pc = "printed"
    /\ script = <<2, 2, 3, 3>>
    /\ stdout = <<60, 98, 114, 62, 60, 98, 114, 47, 62, 60, 47, 98, 114, 62, 10>>

\* The children of every node start in the input after the node itself and
\* one after the other, in the order of the child list.
C11_InInputOrder ==
    \A n \in 1 .. Len(heap) :
        LET kids == heap[n].content IN
        /\ \A j \in 1 .. Len(kids) : born[kids[j]] > born[n]
        /\ \A j \in 1 .. Len(kids) - 1 : born[kids[j]] < born[kids[j + 1]]

\* Where a node starts there is its '(' (an element), or the first code
\* point of its token: of a bare token, which is the node's text as it
\* stands in the input, or of a quoted one, which follows the '"'.
C11_BornInInput ==
    /\ Len(born) = Len(heap)
    /\ \A n \in 2 .. Len(heap) :
           /\ born[n] \in 1 .. Len(rawInput)
           /\ IF heap[n].kind = "ElementNode"
              THEN rawInput[born[n]] = openParenRune
              ELSE LET len == Len(heap[n].tag) IN
                   \/ /\ len > 0
                      /\ born[n] + len - 1 <= Len(rawInput)
                      /\ SubSeq(rawInput, born[n], born[n] + len - 1) = heap[n].tag
                   \/ /\ born[n] > 1
                      /\ rawInput[born[n] - 1] = quoteRune
                      /\ \E k \in born[n] - 1 .. Len(rawInput) - 1 :
                             /\ rawInput[k + 1] = quoteRune
                             /\ heap[n].tag = C8_Quoted(SubSeq(rawInput, born[n], k))

\* C11: on success Parse returns the root, the bottom frame of the stack, an
\* element whose tag is empty at every moment of the parse; every child list
\* holds its text and element children in the order in which their tokens
\* and opening parens stand in the input.
C11_RootAndOrder ==
    /\ heap[1].kind = "ElementNode"
    /\ heap[1].tag = <<>>
    /\ ps.stack[1] = 1
    /\ (Returned /\ ret.err = NoError /\ rawInput # <<>>) => ret.tree = 1
    /\ C11_InInputOrder
    /\ C11_BornInInput

\* "() a " returned the root with two top-level items, an element and then
\* a text.
C11_Witness ==
    /\ pc = "returned"
    /\ ret.tree = 1
    /\ Len(heap[1].content) = 2
    /\ heap[heap[1].content[1]].kind = "ElementNode"
    /\ heap[heap[1].content[2]].kind = "TextNode"

\* The file a request for url is answered from: the file of that path, or
\* the index for "/".
C12_FileOf(url) ==
    IF (staticDirs \o url) \in FileNames THEN staticDirs \o url
    ELSE staticDirs \o index

\* A request that has a handler is in flight with what its handler read: a
\* dev handler past its read holds the outcome of loading the content it
\* found, and is about to print exactly when that content failed to load
\* and the error is not printed yet; any other holds nothing.
C12_InFlight(c) ==
    /\ c.found
    /\ c.h.dev = devMode
    /\ c.h.filename = C12_FileOf(c.url)
    /\ c.stage \in {"read", "print"} => devMode
    /\ c.stage = "print" => c.x.err # NoError
    /\ IF devMode /\ c.stage # "read"
       THEN /\ c.content \in Contents
            /\ c.x = ResourceFromFile([f \in FileNames |-> c.content], c.h.filename)
       ELSE c.content = <<>> /\ c.x = NoResult

\* The last response is what the loader makes of one content of its file:
\* in dev mode the content the handler of that very request read, in
\* non-dev mode the content read at start-up; the rendered bytes and their
\* content type, or nothing written when that content fails to parse.  In
\* non-dev mode, once the server listens, every file has been read exactly
\* once; in dev mode the files have been read once per request that is past
\* its read, and never at start-up.
C12_Served ==
    /\ (spc = "serve" /\ response # NoResponse) =>
           LET f == C12_FileOf(response.url)
               x == ResourceFromFile(IF devMode
                                     THEN [g \in FileNames |-> readFor]
                                     ELSE asRead, f)
           IN  /\ response.status = 200
               /\ response.wrote = (x.err = NoError)
               /\ response.Content = x.resource.Content
               /\ response.ContentType = x.resource.ContentType
               /\ devMode => readFor \in Contents
               /\ ~devMode => readFor = <<>>
    /\ \A c \in BagToSet(conns) : C12_InFlight(c)
    /\ ~devMode => \A f \in FileNames : nRead[f] <= 1
    /\ (~devMode /\ spc = "serve") => \A f \in FileNames : nRead[f] = 1
    /\ devMode =>
           LET past == BagCardinality([c \in {d \in BagToSet(conns) :
                                                   d.stage # "read"} |-> conns[c]])
               total == nRead[staticDirs \o <<47, 98, 46, 104, 116, 108>>]
                        + nRead[staticDirs \o <<47, 99, 46, 99, 115, 115>>]
                        + nRead[staticDirs \o index]
           IN  total = nRequests + past

\* When the files are read.  In dev mode the handler of a request reads its
\* file once, after the request was accepted and before it is answered, and
\* holds the content the file has at that moment; the answer is made from
\* what that handler holds, and printing an error or writing the answer
\* reads nothing.  In non-dev mode
\* a request reads nothing, and the one read of a file, during start-up,
\* finds the content it had then.  No other step reads.
C12_Reads ==
    IF spc = "serve"
    THEN \/ \E c \in BagToSet(conns') :
                /\ conns' = conns (+) SetToBag({c})
                /\ c.content = <<>>
                /\ nRead' = nRead /\ asRead' = asRead /\ readFor' = readFor
         \/ \E c \in BagToSet(conns) : \E d \in BagToSet(conns') :
                LET f == c.h.filename IN
                /\ devMode
                /\ c.stage = "read"
                /\ conns' = (conns (-) SetToBag({c})) (+) SetToBag({d})
                /\ d.url = c.url
                /\ d.stage \in {"print", "write"}
                /\ d.content = files[f]
                /\ nRead' = [nRead EXCEPT ![f] = @ + 1]
                /\ asRead' = [asRead EXCEPT ![f] = files[f]]
                /\ readFor' = readFor
         \/ \E c \in BagToSet(conns) : \E d \in BagToSet(conns') :
                /\ c.stage = "print"
                /\ conns' = (conns (-) SetToBag({c})) (+) SetToBag({d})
                /\ d.url = c.url
                /\ d.stage = "write"
                /\ d.content = c.content
                /\ nRead' = nRead /\ asRead' = asRead /\ readFor' = readFor
         \/ \E c \in BagToSet(conns) :
                /\ c.stage = "write"
                /\ conns' = conns (-) SetToBag({c})
                /\ nRequests' = nRequests + 1
                /\ response'.url = c.url
                /\ readFor' = c.content
                /\ nRead' = nRead /\ asRead' = asRead
         \/ /\ conns' = conns
            /\ nRead' = nRead /\ asRead' = asRead /\ readFor' = readFor
    ELSE IF spc = "walk" /\ ~devMode
    THEN /\ readFor' = readFor
         /\ \A f \in FileNames :
             \/ nRead'[f] = nRead[f] /\ asRead'[f] = asRead[f]
             \/ /\ walk # <<>> /\ f = Head(walk)
                /\ nRead'[f] = 1
                /\ asRead'[f] = files[f]
    ELSE nRead' = nRead /\ asRead' = asRead /\ readFor' = readFor

\* C12: in dev mode every request re-reads and re-transforms the file, and
\* the response is made from the content the file has at the moment the
\* request reads it; in non-dev mode each file is read and transformed
\* once, at start-up, and every response is the bytes made then, whatever
\* the file holds afterwards.
C12_DevRereadsNonDevCaches == []C12_Served /\ [][C12_Reads]_vars

\* Non-dev mode: after the file was changed, the response still is what was
\* made of it at start-up, and not what its content would give now.
C12_Witness ==
    /\ ~devMode
    /\ spc = "serve"
    /\ response.wrote
    /\ LET f == C12_FileOf(response.url) IN
       /\ files[f] # asRead[f]
       /\ response.Content # ResourceFromFile(files, f).resource.Content
       /\ response.Content = ResourceFromFile(asRead, f).resource.Content

\* C13: a .htl file whose content fails to parse never brings the process
\* down, in either mode: no error of Parse reaches log.Fatal.
C13_HostSurvives == ~(spc = "exited" /\ fatal.kind \in {"rune", "stack"})

\* C14: after a successful parse every element of the tree other than the
\* root has a non-empty tag.
C14_NonEmptyTags ==
    (Returned /\ ret.err = NoError /\ rawInput # <<>>) =>
        \A n \in 2 .. Len(heap) :
            (heap[n].kind = "ElementNode" /\ Linked(heap, n)) => heap[n].tag # <<>>

\* C15: once the element on top of the stack has a child, text or element,
\* a ':' read by eatAir fails the parse.
C15_AttributesFirst ==
    [][(/\ rawInput' # rawInput
        /\ eater = "eatAir"
        /\ LastRune(rawInput') = keywordStartRune
        /\ Len(ps.stack) > 1
        /\ Len(heap[currentNode(ps)].content) > 0)
       => eater' = "nil"]_vars

\* A '(' or ')' read after ':' has started a key and before the value has
\* begun fails with "unexpected open paren" or "unexpected close paren" and
\* touches neither the stack nor the tree.
C16_ParenRejected ==
    (/\ rawInput' # rawInput
     /\ LastRune(rawInput') \in {openParenRune, closeParenRune}
     /\ \/ eater = "eatSymbol" /\ ps.context = "contextAttrKey"
        \/ eater \in {"eatAir", "eatSymbol"} /\ ps.context = "contextAfterAttrKey")
    => /\ eater' = "nil"
       /\ pc' = "returned"
       /\ ret'.tree = 0
       /\ ret'.err.kind = "rune"
       /\ ret'.err.msg = IF LastRune(rawInput') = openParenRune
                         THEN MsgUnexpectedOpenParen
                         ELSE MsgUnexpectedCloseParen
       /\ ps'.stack = ps.stack
       /\ heap' = heap

\* From the ':' to the commit of the value: a key is started only by a ':'
\* that eatAir reads right after a tag or a complete attribute; until the
\* value is committed the stack stays as it is, the committed key is kept
\* and no attribute is stored; the commit of the value stores it under that
\* key on the element on top of the stack; nothing else stores attributes.
C16_KeyToValue ==
    (rawInput' # rawInput /\ eater' # "nil") =>
        LET r == LastRune(rawInput')
            cur == currentNode(ps)
            inAttr(c) == c \in {"contextAttrKey", "contextAfterAttrKey",
                                "contextAttrValue"}
        IN  /\ (inAttr(ps.context) /\ ~(ps.context = "contextAttrValue" /\ C8_Commits(r)))
                   => /\ ps'.stack = ps.stack
                      /\ inAttr(ps'.context)
                      /\ \A n \in 1 .. Len(heap) : heap'[n].attr = heap[n].attr
                      /\ ps.context # "contextAttrKey" => ps'.key = ps.key
            /\ (ps.context = "contextAttrValue" /\ C8_Commits(r))
                   => /\ heap'[cur].attr = MapStore(heap[cur].attr, ps.key, ps.token)
                      /\ \A n \in 1 .. Len(heap) :
                             n # cur => heap'[n].attr = heap[n].attr
                      /\ ps'.key = <<>>
            /\ ~inAttr(ps.context)
                   => /\ \A n \in 1 .. Len(heap) : heap'[n].attr = heap[n].attr
                      /\ inAttr(ps'.context) =>
                             /\ eater = "eatAir"
                             /\ r = keywordStartRune
                             /\ ps.context = "contextAfterTag"
                             /\ ps'.context = "contextAttrKey"
                             /\ ps'.stack = ps.stack

\* C16: once ':' has started an attribute key, a '(' or ')' read before the
\* value has begun fails the parse, right after the key in eatSymbol or
\* after whitespace or comments in eatAir; no push or pop occurs between
\* the commit of a key and the commit of its value, and the attribute is
\* stored on the element that was on top of the stack when the key was read.
C16_NoParenInsideAttribute == [][C16_ParenRejected /\ C16_KeyToValue]_vars

\* "(a :k ;(line break)(" failed on the '(' read by eatAir after the key, a
\* space and a comment.
C16_Witness ==
    /\ pc = "returned"
    /\ ret.err.kind = "rune"
    /\ ret.err.msg = MsgUnexpectedOpenParen
    /\ ps.context = "contextAfterAttrKey"
    /\ ps.key = <<107>>
    /\ Len(ps.stack) = 2
    /\ lineNumber = 2

\* One step of eatString.
C17_StringStep ==
    (rawInput' # rawInput /\ eater = "eatString") =>
        LET r == LastRune(rawInput')
            cur == currentNode(ps)
        IN  IF ps.escapingBackslash
            THEN /\ eater' = "eatString"
                 /\ ps' = [ps EXCEPT !.escapingBackslash = FALSE,
                                     !.token = @ \o C8_Escaped(r)]
                 /\ heap' = heap
                 /\ r = quoteRune =>
                        ps'.token = ps.token \o <<38, 113, 117, 111, 116, 59>>
            ELSE IF r = escapingRune
            THEN /\ eater' = "eatString"
                 /\ ps' = [ps EXCEPT !.escapingBackslash = TRUE]
                 /\ heap' = heap
            ELSE IF r = quoteRune
            THEN /\ eater' = "eatAir"
                 /\ ps'.token = <<>>
                 /\ ~ps'.escapingBackslash
                 /\ ps'.stack = ps.stack
                 /\ ps.context \in {"contextAttrValue", "contextContent"}
                 /\ IF ps.context = "contextAttrValue"
                    THEN /\ ps'.context = "contextAfterTag"
                         /\ heap'[cur].attr = MapStore(heap[cur].attr, ps.key, ps.token)
                         /\ Len(heap') = Len(heap)
                    ELSE /\ ps'.context = "contextDefault"
                         /\ Len(heap') = Len(heap) + 1
                         /\ heap'[Len(heap')] = NewNode("TextNode", ps.token)
                         /\ heap'[cur].content = Append(heap[cur].content, Len(heap'))
            ELSE /\ eater' = "eatString"
                 /\ ps' = [ps EXCEPT !.token = @ \o C8_Html(r)]
                 /\ heap' = heap

\* C17: inside a quoted string a backslash sets the escape flag and appends
\* nothing; the flag covers exactly the next code point, which is appended
\* in its escaped form without closing the string even when it is a '"',
\* and is cleared by it; a '"' read with the flag clear commits the token
\* and closes the string, going to AfterTag when the string was an attribute
\* value and to Default when it was content.
C17_BackslashEscapes ==
    [](ps.escapingBackslash => eater = "eatString") /\ [][C17_StringStep]_vars

\* (a :x "<\n" "'\"" ) was parsed: the attribute value is &lt; and a line
\* break, and the text child, whose escaped '"' did not end it, is
\* &apos;&quot;
C17_Witness ==
    /\ pc = "returned"
    /\ ret.tree = 1
    /\ script = <<1, 6, 8, 3>>
    /\ \E n \in 1 .. Len(heap) :
           /\ heap[n].tag = <<97>>
           /\ heap[n].attr = (<<120>> :> <<38, 108, 116, 59, 10>>)
           /\ Len(heap[n].content) = 1
           /\ heap[heap[n].content[1]] =
                  NewNode("TextNode", <<38, 97, 112, 111, 115, 59, 38, 113, 117, 111, 116, 59>>)

\* The contexts each eatFn runs with.
C18_EaterContext ==
    /\ eater \in {"eatAir", "eatComment"} =>
           /\ ps.context \in {"contextDefault", "contextAfterTag",
                              "contextAfterAttrKey"}
           /\ ps.token = <<>>
    /\ eater = "eatSymbol" =>
           ps.context \in {"contextTag", "contextAttrKey", "contextAttrValue",
                           "contextContent"}
    /\ eater = "eatString" =>
           ps.context \in {"contextAttrValue", "contextContent"}
    /\ ps.escapingBackslash => eater = "eatString"
    /\ eater \in {"eatAir", "eatSymbol", "eatString", "eatComment", "nil"}

\* A step that commits and does not fail leaves the buffer empty, and a
\* token starts with nothing in the buffer but its own first code point.
C18_CommitFlushes ==
    (rawInput' # rawInput /\ eater' # "nil") =>
        /\ C8_Commits(LastRune(rawInput')) => ps'.token = <<>>
        /\ tokStart' # tokStart =>
               ps'.token = SubSeq(rawInput', tokStart', Len(rawInput'))

\* C18: in every state that has not failed, eatAir and eatComment run with
\* the context Default, AfterTag or AfterAttrKey and an empty token buffer,
\* eatSymbol with Tag, AttrKey, AttrValue or Content, eatString with
\* AttrValue or Content, and the escape flag is set only while eatString is
\* active; so every commit of eatSymbol and eatString empties the buffer
\* and no text of one token is left for the next.
C18_EaterDeterminesContext == []C18_EaterContext /\ [][C18_CommitFlushes]_vars

\* After "a :a " eatAir runs in AfterAttrKey with the key committed and the
\* buffer empty.
C18_Witness ==
    /\ pc = "loop"
    /\ eater = "eatAir"
    /\ ps.context = "contextAfterAttrKey"
    /\ ps.key = <<97>>
    /\ ps.token = <<>>
    /\ Len(heap[1].content) = 1

\* The places where node n stands in a child list.
C19_Parents(n) ==
    {pos \in (1 .. Len(heap)) \X (1 .. Len(heap)) :
        /\ pos[2] <= Len(heap[pos[1]].content)
        /\ heap[pos[1]].content[pos[2]] = n}

\* The stack is the rightmost path of the tree, and the tree is a tree.
C19_RightmostPath ==
    eater # "nil" =>
        /\ ps.stack[1] = 1
        /\ \A i \in 1 .. Len(ps.stack) - 1 :
               LET kids == heap[ps.stack[i]].content IN
               /\ kids # <<>>
               /\ kids[Len(kids)] = ps.stack[i + 1]
        /\ \A i \in 1 .. Len(ps.stack) : heap[ps.stack[i]].kind = "ElementNode"
        /\ C19_Parents(1) = {}
        /\ \A n \in 2 .. Len(heap) :
               /\ Cardinality(C19_Parents(n)) = 1
               /\ \A pos \in C19_Parents(n) : pos[1] < n
        /\ \A n \in 1 .. Len(heap) :
               heap[n].kind = "TextNode" =>
                   heap[n].content = <<>> /\ heap[n].attr = <<>>
        /\ ps.context = "contextTag" =>
               /\ Len(ps.stack) > 1
               /\ heap[currentNode(ps)] = NewNode("ElementNode", <<>>)

\* A step appends children to the top of the stack only, and the children it
\* appends are the nodes it allocates; it sets a tag only of the top of the
\* stack, in the context Tag, while that element has the empty tag, no
\* attribute and no child.
C19_TopOnly ==
    (rawInput' # rawInput /\ eater' # "nil") =>
        \A n \in 1 .. Len(heap) :
            /\ heap'[n].kind = heap[n].kind
            /\ heap'[n].content # heap[n].content =>
                   /\ n = currentNode(ps)
                   /\ IsPrefix(heap[n].content, heap'[n].content)
                   /\ \A j \in Len(heap[n].content) + 1 .. Len(heap'[n].content) :
                          heap'[n].content[j] > Len(heap)
            /\ heap'[n].tag # heap[n].tag =>
                   /\ n = currentNode(ps)
                   /\ ps.context = "contextTag"
                   /\ heap[n] = NewNode("ElementNode", <<>>)
                   /\ ps'.context # "contextTag" \/ currentNode(ps') # n

\* C19: in every state that has not failed the stack is the rightmost path
\* of the tree under construction: its bottom is the root and each frame is
\* the last child of the frame below; every node but the root has exactly
\* one parent; nodes are appended only to the top of the stack; a tag is set
\* at most once, while its element is the top frame and has neither
\* attribute nor child.
C19_StackIsRightmostPath == []C19_RightmostPath /\ [][C19_TopOnly]_vars

\* After "(a (br )(a " the first element has two children, the second of
\* which is on the stack.
C19_Witness ==
    /\ pc = "loop"
    /\ eater = "eatAir"
    /\ Len(ps.stack) = 3
    /\ Len(heap[ps.stack[2]].content) = 2
    /\ heap[ps.stack[3]].tag = <<97>>

\* The input ended while eatSymbol was reading a token, of which it has at
\* least one code point, with only the root on the stack.
C20_EndsInToken ==
    /\ Returned
    /\ eater = "eatSymbol"
    /\ ps.token # <<>>
    /\ Len(ps.stack) = 1

\* Parse succeeds and the tree is the one built before the token started.
C20_Dropped ==
    /\ ret.err = NoError
    /\ ret.tree = 1
    /\ heap = Loop(InitialLoopState, SubSeq(rawInput, 1, tokStart - 1), 1).state.heap
    /\ ps.token = C8_Raw

\* What the loop makes of the input followed by the whitespace s.
C20_Then(s) == Loop(InitialLoopState, Append(rawInput, s), 1)

\* The token is the last child of the root, or the value of the pending key
\* among the attributes of the root.
C20_ChildOrAttribute(s) ==
    LET q == C20_Then(s)
        h == q.state.heap
    IN  /\ q.ret = [tree |-> 1, err |-> NoError]
        /\ \/ /\ h = Append([heap EXCEPT ![1].content = Append(@, Len(heap) + 1)],
                            NewNode("TextNode", ps.token))
              /\ ps.context = "contextContent"
           \/ /\ h = [heap EXCEPT ![1].attr = MapStore(@, ps.key, ps.token)]
              /\ ps.context = "contextAttrValue"

\* C20: if the input ends while eatSymbol is reading a bare token and only
\* the root is on the stack, Parse succeeds and the token is nowhere in the
\* tree; the same token followed by one whitespace code point is committed
\* as a child or as an attribute of the root.
C20_CommittedToRoot ==
    C20_EndsInToken =>
        /\ C20_Dropped
        /\ \A s \in {32, newLineRune} : C20_ChildOrAttribute(s)

===========================================================================
